---- MODULE Spec2Model ----
(***************************************************************************)
(* Model of raylib/src/core/data.rs: the five wrappers over the native      *)
(* library (CompressData, DecompressData, ExportDataAsCode,                 *)
(* EncodeDataBase64, DecodeDataBase64).                                     *)
(*                                                                          *)
(* The native heap is a sequence of allocations; a pointer is an index in   *)
(* it and NULL is 0.  A value returned to the caller is a record that is    *)
(* either a borrowed view (ptr # NULL, the bytes live in the native heap)   *)
(* or an owned container (ptr = NULL, the bytes live in the record).        *)
(***************************************************************************)
EXTENDS Integers, Sequences, FiniteSets

\* ---------------------------------------------------------------- bounds
MaxLen == 3
MaxAllocs == 2
MaxNullLen == 1

NULL == 0

\* byte values the caller's buffers are built from ('1' and the zero byte)
Byte == {0, 49}

SeqsUpTo(S, n) == UNION {[1..k -> S] : k \in 0..n}

\* the buffer of the zero-byte scenario: '1', 0, '2'
ZeroByteBuffer == <<49, 0, 50>>

Inputs == SeqsUpTo(Byte, MaxLen) \cup {ZeroByteBuffer}
\* file names: "a", "b", and three with a zero byte in them
FileNames == {<<97>>, <<98>>, <<0>>, <<97, 0>>, <<97, 0, 98>>}
\* CompressData allocates its output with calloc at an upper bound of the
\* compressed size: zeroed capacity is left beyond the reported out-length
CompressSlack == <<0>>

Contains(s, v) == \E i \in 1..Len(s) : s[i] = v

\* ------------------------------------------------------- native library
\* DEFLATE, as one stored block: BFINAL=1/BTYPE=00, LEN, NLEN, raw bytes.
DeflateStored(b) ==
    <<1, Len(b) % 256, Len(b) \div 256,
      255 - (Len(b) % 256), 255 - (Len(b) \div 256)>> \o b

IsStoredBlock(c) ==
    /\ Len(c) >= 5
    /\ c[1] = 1
    /\ c[4] = 255 - c[2]
    /\ c[5] = 255 - c[3]
    /\ Len(c) = 5 + c[2] + 256 * c[3]

InflateStored(c) == SubSeq(c, 6, Len(c))

\* Base64 alphabet: A-Z a-z 0-9 + /, padding '='
B64Pad == 61

B64Char(i) ==
    IF i < 26 THEN 65 + i
    ELSE IF i < 52 THEN 97 + (i - 26)
    ELSE IF i < 62 THEN 48 + (i - 52)
    ELSE IF i = 62 THEN 43 ELSE 47

B64Alphabet == {B64Char(i) : i \in 0..63}

B64Index(c) == CHOOSE i \in 0..63 : B64Char(i) = c

RECURSIVE Base64Encode(_)
Base64Encode(b) ==
    IF Len(b) = 0 THEN <<>>
    ELSE LET k  == IF Len(b) >= 3 THEN 3 ELSE Len(b)
             b2 == IF k >= 2 THEN b[2] ELSE 0
             b3 == IF k >= 3 THEN b[3] ELSE 0
             v  == b[1] * 65536 + b2 * 256 + b3
             c1 == B64Char(v \div 262144)
             c2 == B64Char((v \div 4096) % 64)
             c3 == IF k >= 2 THEN B64Char((v \div 64) % 64) ELSE B64Pad
             c4 == IF k >= 3 THEN B64Char(v % 64) ELSE B64Pad
         IN  <<c1, c2, c3, c4>> \o Base64Encode(SubSeq(b, k + 1, Len(b)))

IsBase64(s) ==
    /\ Len(s) % 4 = 0
    /\ \A i \in 1..Len(s) :
          \/ s[i] \in B64Alphabet
          \/ /\ s[i] = B64Pad
             /\ i >= Len(s) - 1
             /\ (i = Len(s) - 1 => s[Len(s)] = B64Pad)

RECURSIVE Base64Decode(_)
Base64Decode(s) ==
    IF Len(s) = 0 THEN <<>>
    ELSE LET k  == IF s[3] = B64Pad THEN 1 ELSE IF s[4] = B64Pad THEN 2 ELSE 3
             i3 == IF k >= 2 THEN B64Index(s[3]) ELSE 0
             i4 == IF k >= 3 THEN B64Index(s[4]) ELSE 0
             v  == B64Index(s[1]) * 262144 + B64Index(s[2]) * 4096 + i3 * 64 + i4
             o  == <<v \div 65536, (v \div 256) % 256, v % 256>>
         IN  SubSeq(o, 1, k) \o Base64Decode(SubSeq(s, 5, Len(s)))

\* A native call: out is the transformed data or "null" on failure.  On
\* success the library allocates the output (plus slack) on its heap and
\* reports the length through the out-parameter; on failure it returns NULL
\* and leaves nl in the out-parameter.
NativeAlloc(h, ok, out, slack, nl) ==
    IF ok
    THEN [heap |-> Append(h, [bytes |-> out \o slack, live |-> TRUE]),
          ptr  |-> Len(h) + 1,
          len  |-> Len(out),
          buf  |-> out \o slack]
    ELSE [heap |-> h, ptr |-> NULL, len |-> nl, buf |-> <<>>]

\* mode is how the call goes: "ok", "fail" (the library cannot produce its
\* output, e.g. its allocation fails) and, for the encoder, "nul": the
\* library version that appends a terminating zero to the text and counts it
\* in the out-length.
CompressData(h, data, mode, nl) ==
    NativeAlloc(h, mode # "fail", DeflateStored(data), CompressSlack, nl)

DecompressData(h, data, mode, nl) ==
    NativeAlloc(h, mode # "fail" /\ IsStoredBlock(data), InflateStored(data), <<>>, nl)

EncodeDataBase64(h, data, mode, nl) ==
    NativeAlloc(h, mode # "fail",
                Base64Encode(data) \o (IF mode = "nul" THEN <<0>> ELSE <<>>), <<>>, nl)

DecodeDataBase64(h, data, mode, nl) ==
    NativeAlloc(h, mode # "fail" /\ IsBase64(data),
                IF IsBase64(data) THEN Base64Decode(data) ELSE <<>>, <<>>, nl)

\* ------------------------------------------------------------ wrappers
\* values handed back to the caller
Value(kind, ptr, len, bytes, flag) ==
    [kind |-> kind, ptr |-> ptr, len |-> len, bytes |-> bytes, flag |-> flag]

NoValue == Value("none", NULL, 0, <<>>, FALSE)
Err     == Value("Err", NULL, 0, <<>>, FALSE)
Abort   == Value("Abort", NULL, 0, <<>>, FALSE)
Panic   == Value("Panic", NULL, 0, <<>>, FALSE)

\* buffer.is_null()
is_null_never(p) == FALSE
is_null(p) == p = NULL

\* std::slice::from_raw_parts(buffer, out_length as usize): a borrowed view
from_raw_parts_short(p, n) == [ptr |-> p, len |-> IF n > 0 THEN n - 1 ELSE 0]
from_raw_parts(p, n) == [ptr |-> p, len |-> n]

\* the bytes seen through a view over a live native allocation
ReadView(h, s) == SubSeq(h[s.ptr].bytes, 1, s.len)

\* Ok(buffer): the view itself is returned, typed &'static [u8]
OkView(h, s) == Value("Ok", s.ptr, s.len, <<>>, FALSE)

\* the bytes the caller reads out of a returned value
Deref(h, r) == IF r.ptr # NULL THEN ReadView(h, [ptr |-> r.ptr, len |-> r.len])
               ELSE r.bytes

\* s.contains(&0)
contains_zero(s) == Contains(s, 0)

\* s.iter().filter(|f| { if **f == 0 { keep = false; } keep }).collect()
RECURSIVE filter_keep(_, _)
filter_keep(s, keep) ==
    IF Len(s) = 0 THEN <<>>
    ELSE LET k == IF s[1] = 0 THEN FALSE ELSE keep
         IN  (IF k THEN <<s[1]>> ELSE <<>>) \o filter_keep(Tail(s), k)

\* the if/else over the slice that ends both Base64 wrappers
collect_borrowed(ptr, s) == Value("Vec", ptr, Len(s), <<>>, FALSE)
collect(ptr, s) ==
    IF contains_zero(s)
    THEN Value("Vec", NULL, Len(filter_keep(s, TRUE)), filter_keep(s, TRUE), FALSE)
    ELSE Value("Vec", NULL, Len(s), s, FALSE)

\* compress_data / decompress_data after the native call returned (p, n)
\* on heap h.  Result: the returned value, the heap, whether a view was
\* formed over NULL.
deflate_wrapper(h, p, n) ==
    IF is_null(p)
    THEN [ret |-> Err, heap |-> h, nullView |-> FALSE, halt |-> FALSE]
    ELSE [ret |-> OkView(h, from_raw_parts(p, n)), heap |-> h,
          nullView |-> from_raw_parts(p, n).ptr = NULL, halt |-> FALSE]

compress_data(h, p, n) == deflate_wrapper(h, p, n)

\* a decompress_data that would end its output at the first zero byte
decompress_data_cstr(h, p, n) ==
    IF is_null(p)
    THEN [ret |-> Err, heap |-> h, nullView |-> FALSE, halt |-> FALSE]
    ELSE [ret |-> OkView(h, [ptr |-> p,
                             len |-> Len(filter_keep(ReadView(h, from_raw_parts(p, n)), TRUE))]),
          heap |-> h, nullView |-> FALSE, halt |-> FALSE]
decompress_data(h, p, n) == deflate_wrapper(h, p, n)

\* The native allocation is left alone by the Base64 wrappers.
KeepAlloc_free(h, p) == [h EXCEPT ![p].live = FALSE]
KeepAlloc(h, p) == h

\* encode_data_base64 / decode_data_base64 after the native call returned
\* (p, n) on heap h.  There is no null check: with p = NULL the slice is
\* formed over NULL, which is undefined behaviour; ub is the outcome the
\* build produces, either "abort" or the bytes g that the reads yield.
base64_wrapper(h, p, n, ub, g) ==
    IF p = NULL
    THEN IF ub = "abort"
         THEN [ret |-> Abort, heap |-> h, nullView |-> TRUE, halt |-> TRUE]
         ELSE [ret |-> collect(NULL, g), heap |-> h, nullView |-> TRUE, halt |-> FALSE]
    ELSE [ret |-> collect(p, ReadView(h, from_raw_parts(p, n))),
          heap |-> KeepAlloc(h, p), nullView |-> FALSE, halt |-> FALSE]

encode_data_base64(h, p, n, ub, g) == base64_wrapper(h, p, n, ub, g)

decode_data_base64(h, p, n, ub, g) == base64_wrapper(h, p, n, ub, g)

\* CString::new(file_name): an error when the name has an interior nul
CString_new_unchecked(name) == [ok |-> TRUE, cstr |-> name]
CString_new(name) ==
    IF Contains(name, 0) THEN [ok |-> FALSE, cstr |-> <<>>]
    ELSE [ok |-> TRUE, cstr |-> name]

\* ffi::ExportDataAsCode: reports success or failure; writes the file on success
ExportDataAsCode(fs, cstr, success) ==
    [result |-> success, files |-> IF success THEN fs \cup {cstr} ELSE fs]

\* export_data_as_code: CString::new(..).unwrap() panics before the call
export_data_as_code(fs, name, success) ==
    LET c == CString_new(name)
    IN  IF ~c.ok
        THEN [ret |-> Panic, files |-> fs, calls |-> 0, halt |-> TRUE, result |-> FALSE]
        ELSE LET e == ExportDataAsCode(fs, c.cstr, success)
             IN  [ret |-> Value("Bool", NULL, 0, <<>>, e.result),
                  files |-> e.files, calls |-> 1, halt |-> FALSE, result |-> e.result]

\* ---------------------------------------------------------------- state
VARIABLES
    heap,       \* native heap: sequence of [bytes, live]
    files,      \* names of the files the native library has written
    op,         \* the operation that ran last
    nat,        \* what the native call was given and returned
    ret,        \* what the wrapper returned to the caller
    nullView,   \* a slice was formed over NULL during the last operation
    ffiCalls,   \* native invocations made by the last operation
    nonNull,    \* number of transform calls whose native result was non-null
    origin,     \* provenance of ret: which buffer it was derived from
    halted      \* the process has panicked or aborted

vars == <<heap, files, op, nat, ret, nullView, ffiCalls, nonNull, origin, halted>>

NoOrigin == [kind |-> "none", b |-> <<>>]
NoNative == [ptr |-> NULL, len |-> 0, buf |-> <<>>, name |-> <<>>, result |-> FALSE]

Init ==
    /\ heap = <<>>
    /\ files = {}
    /\ op = "none"
    /\ nat = NoNative
    /\ ret = NoValue
    /\ nullView = FALSE
    /\ ffiCalls = 0
    /\ nonNull = 0
    /\ origin = NoOrigin
    /\ halted = FALSE

\* the buffers the caller can pass: fresh ones, or the one it was last handed
Held == IF ret.kind \in {"Ok", "Vec"} THEN {Deref(heap, ret)} ELSE {}
CallerInputs == Inputs \cup Held

NullOutLens == 0..MaxNullLen
Garbage(n) == [1..n -> Byte]

\* provenance after a transform: "from" is the kind the input must carry for
\* the result to be the second leg of a round trip
Provenance(from, first, data, ok) ==
    IF ~ok THEN NoOrigin
    ELSE IF from # "none" /\ origin.kind = from /\ {data} = Held
         THEN [kind |-> from \o "_rt", b |-> origin.b]
         ELSE IF first # "none" THEN [kind |-> first, b |-> data] ELSE NoOrigin

\* The bytes of an allocation that no value of the caller refers to can never
\* be read again (this layer keeps no pointer of its own): they are dropped
\* from the state, the allocation itself stays.
Unreachable(h, r) ==
    [i \in DOMAIN h |-> IF i = r.ptr THEN h[i] ELSE [h[i] EXCEPT !.bytes = <<>>]]

\* the native function and the wrapper body of each transform
NativeCall(name, h, data, mode, nl) ==
    CASE name = "compress"      -> CompressData(h, data, mode, nl)
      [] name = "decompress"    -> DecompressData(h, data, mode, nl)
      [] name = "encode_base64" -> EncodeDataBase64(h, data, mode, nl)
      [] name = "decode_base64" -> DecodeDataBase64(h, data, mode, nl)

WrapperBody(name, h, p, n, ub, g) ==
    CASE name = "compress"      -> compress_data(h, p, n)
      [] name = "decompress"    -> decompress_data(h, p, n)
      [] name = "encode_base64" -> encode_data_base64(h, p, n, ub, g)
      [] name = "decode_base64" -> decode_data_base64(h, p, n, ub, g)

\* what a transform leaves behind: n is the native call's outcome, r the
\* wrapper's, o the provenance of the returned value
Return(name, n, r, o) ==
    /\ heap' = Unreachable(r.heap, r.ret)
    /\ ret' = r.ret
    /\ nullView' = r.nullView
    /\ halted' = r.halt
    /\ op' = name
    /\ nat' = [ptr |-> n.ptr, len |-> n.len, buf |-> n.buf,
               name |-> <<>>, result |-> FALSE]
    /\ ffiCalls' = 1
    /\ nonNull' = IF n.ptr # NULL THEN nonNull + 1 ELSE nonNull
    /\ origin' = o
    /\ UNCHANGED files

\* a call of a transform whose native call returns NULL
IsNullCall(name, c) == NativeCall(name, heap, c[1], c[2], 0).ptr = NULL
NullCall(name, modes) == CHOOSE c \in CallerInputs \X modes : IsNullCall(name, c)
CanReturnNull(name, modes) == \E c \in CallerInputs \X modes : IsNullCall(name, c)

\* one call of a transform: the native call, then the wrapper's own code.
\* What a call leaves behind when the native result is NULL does not depend
\* on the buffer passed: one such call stands for all of them.
Transform(name, modes, from, first) ==
    /\ ~halted
    /\ \/ \E data \in CallerInputs, mode \in modes :
             LET n == NativeCall(name, heap, data, mode, 0)
             IN  /\ n.ptr # NULL
                 /\ Len(heap) < MaxAllocs
                 /\ Return(name, n, WrapperBody(name, n.heap, n.ptr, n.len, "abort", <<>>),
                           Provenance(from, first, data, TRUE))
       \/ /\ CanReturnNull(name, modes) = TRUE
          /\ \E nl \in NullOutLens, ub \in {"abort", "read"} :
               LET c == NullCall(name, modes)
                   n == NativeCall(name, heap, c[1], c[2], nl)
               IN  \E g \in (IF ub = "read" THEN Garbage(n.len) ELSE {<<>>}) :
                     Return(name, n, WrapperBody(name, n.heap, n.ptr, n.len, ub, g),
                            Provenance(from, first, c[1], FALSE))

Compress == Transform("compress", {"ok", "fail"}, "none", "deflate")

Decompress == Transform("decompress", {"ok", "fail"}, "deflate", "none")

EncodeBase64 == Transform("encode_base64", {"ok", "fail", "nul"}, "none", "b64")

DecodeBase64 == Transform("decode_base64", {"ok", "fail"}, "b64", "none")

ExportAsCode ==
    /\ ~halted
    /\ \E name \in FileNames, success \in BOOLEAN :
         LET r == export_data_as_code(files, name, success)
         IN  /\ files' = r.files
             /\ ret' = r.ret
             /\ halted' = r.halt
             /\ ffiCalls' = r.calls
             /\ op' = "export_as_code"
             /\ nat' = [ptr |-> NULL, len |-> 0, buf |-> <<>>,
                        name |-> name, result |-> success]
             /\ nullView' = FALSE
             /\ origin' = NoOrigin
             /\ heap' = Unreachable(heap, r.ret)
             /\ UNCHANGED nonNull

Next ==
    \/ Compress
    \/ Decompress
    \/ EncodeBase64
    \/ DecodeBase64
    \/ ExportAsCode

Spec == Init /\ [][Next]_vars

\* ---------------------------------------------------------------- claims
Deflate == {"compress", "decompress"}
Base64 == {"encode_base64", "decode_base64"}
Returned == Deref(heap, ret)
NativeOut == SubSeq(nat.buf, 1, nat.len)
Live == {i \in DOMAIN heap : heap[i].live}

\* C1: when the native call of compress_data or decompress_data returns a
\* null pointer, the wrapper returns the error value, hands back no bytes
\* and forms no view over the null pointer, whatever the out-length holds.
C1_NullIsErr ==
    (op \in Deflate /\ nat.ptr = NULL) =>
        /\ ret = Err
        /\ Returned = <<>>
        /\ ~nullView
        /\ ~halted

C1_Witness ==
    op = "decompress" /\ nat.ptr = NULL /\ nat.len > 0 /\ ret.kind = "Err"

\* C2: when the native call of compress_data or decompress_data returns a
\* non-null pointer with out-length n, the wrapper returns Ok with exactly n
\* bytes, equal to the first n bytes of the native buffer, zero bytes included.
C2_OkIsExact ==
    (op \in Deflate /\ nat.ptr # NULL) =>
        /\ ret.kind = "Ok"
        /\ Len(Returned) = nat.len
        /\ Returned = NativeOut

C2_Witness ==
    /\ op = "compress" /\ nat.ptr # NULL /\ ret.kind = "Ok"
    /\ Contains(Returned, 0)
    /\ Len(nat.buf) > nat.len
    /\ Len(Returned) = 8

\* C3: encode_data_base64 returns exactly output_length symbols, equal to
\* the native output buffer, also when that buffer holds a zero value.
C3_EncodeExact ==
    (op = "encode_base64" /\ nat.ptr # NULL) =>
        /\ ret.kind = "Vec"
        /\ Len(Returned) = nat.len
        /\ Returned = NativeOut

\* C4: decode_data_base64 returns exactly output_length bytes, equal to the
\* native output buffer; a zero byte does not end the copy early.
C4_DecodeExact ==
    (op = "decode_base64" /\ nat.ptr # NULL) =>
        /\ ret.kind = "Vec"
        /\ Len(Returned) = nat.len
        /\ Returned = NativeOut

\* C5: Base64 round trip: decoding what encoding b returned gives back b,
\* whole, also when b holds a zero byte.
C5_Base64RoundTrip ==
    origin.kind = "b64_rt" => (ret.kind = "Vec" /\ Returned = origin.b)

\* C6: DEFLATE round trip: decompressing what compressing b returned gives
\* Ok(b), for every b, the empty one and ones with zero bytes included.
C6_DeflateRoundTrip ==
    origin.kind = "deflate_rt" => (ret.kind = "Ok" /\ Returned = origin.b)

C6_Witness ==
    /\ origin.kind = "deflate_rt" /\ origin.b = ZeroByteBuffer
    /\ op = "decompress" /\ Returned = ZeroByteBuffer

C8_ExportNulName ==
    /\ \A f \in files : ~Contains(f, 0)
    /\ op = "export_as_code" =>
          IF Contains(nat.name, 0)
          THEN ffiCalls = 0 /\ ret = Panic /\ halted
          ELSE /\ ffiCalls = 1
               /\ ret.kind = "Bool"
               /\ ret.flag = nat.result
               /\ (nat.result => nat.name \in files)

C8_Witness ==
    op = "export_as_code" /\ Contains(nat.name, 0) /\ ffiCalls = 0 /\ files # {}

\* C9: this layer releases no native output allocation: every buffer the
\* native library returned non-null is still allocated, so the live
\* allocations number as many as the calls whose native result was non-null.
C9_NothingReleased ==
    /\ Cardinality(Live) = nonNull
    /\ Live = DOMAIN heap

C9_Witness ==
    nonNull = 2 /\ Cardinality(Live) = 2 /\ op = "decode_base64" /\ nat.ptr = NULL

\* C10: encode_data_base64 and decode_data_base64 never form or read a
\* view over a null native result pointer.
C10_Base64NoNullView ==
    op \in Base64 => ~nullView

====
